---------------------------- MODULE Spec2Model ----------------------------
(***************************************************************************)
(* Model of the rustengan node runtime (src/src/lib.rs) running the        *)
(* broadcast node (src/src/bin/broadcast.rs).                              *)
(*                                                                         *)
(* Spec        one node: handshake, one task per inbound line contending   *)
(*             for the node lock, the periodic gossip tick, the output     *)
(*             stream written chunk by chunk, drain at end of input.       *)
(* FairSpec    Spec with the fairness the scheduler and the locks give.    *)
(* TickSpec    FairSpec with the ticker thread never ceasing to tick.      *)
(* StraySpec   Spec fed by a harness that also sends lines outside the     *)
(*             protocol (gossip from a stranger, a reply, a stray topology).*)
(* ClusterSpec the nodes of a cluster after handshake and topology, each   *)
(*             handling one event at a time, joined by a network that may  *)
(*             delay, reorder and (boundedly) drop Gossip messages.        *)
(***************************************************************************)
EXTENDS Integers, Sequences, FiniteSets, TLC

\* ------------------------------------------------------------------ bounds
MaxLines == 2       \* inbound lines read after the init line
MaxGossips == 3     \* Gossip envelopes the node's gossip rounds send
MaxVal   == 2       \* broadcast values are 1..MaxVal
MaxDrops == 1       \* Gossip messages the network may drop
MaxFlight == 1      \* Gossip messages in flight from one node to another

\* ------------------------------------------------------------- vocabulary
Self     == "n1"
NodeIds  == {"n1", "n2", "n3"}          \* init.node_ids
Client   == "c1"
Stranger == "n9"                        \* a node id absent from init.node_ids
Values   == 1..MaxVal

\* Option<usize>: None is the empty tuple, Some(x) the one-element tuple.
None    == <<>>
Some(x) == <<x>>

\* The init line's msg_id; the k-th line after it carries msg_id InitMsgId + k.
InitMsgId == 1

Envelope(src, dst, id, irt, payload) ==
    [src |-> src, dest |-> dst, msg_id |-> id, in_reply_to |-> irt,
     payload |-> payload]

\* Topology assignments the harness may send.
TopoLine   == [n \in NodeIds |->
                 IF n = Self THEN <<"n2", "n3">> ELSE <<Self>>]
TopoNoSelf == [n \in NodeIds \ {Self} |-> <<Self>>]
TopoStray  == [n \in NodeIds |-> <<Stranger>>]

\* Payloads of the lines that decode as Message<Payload>.
RequestPayloads ==
    {[type |-> "topology", topology |-> t] : t \in {TopoLine, TopoNoSelf}}
      \cup {[type |-> "broadcast", message |-> v] : v \in Values}
      \cup {[type |-> "read"]}

\* The inbound lines: requests from the client, gossip from a neighbor.
Lines ==
    {[src |-> Client, payload |-> p] : p \in RequestPayloads}
      \cup {[src |-> "n2", payload |-> [type |-> "gossip", seen |-> {MaxVal}]]}

\* Lines a well-behaved harness does not send: gossip from a node outside the
\* cluster, a reply, a topology naming a node outside the cluster.
StrayLines ==
    {[src |-> Stranger, payload |-> [type |-> "gossip", seen |-> {1}]],
     [src |-> "n2", payload |-> [type |-> "broadcast_ok"]],
     [src |-> Client, payload |-> [type |-> "topology", topology |-> TopoStray]]}

\* ------------------------------------------------------------------ units
\* Units of work: the main thread, one task per line, the gossip tick.
MainUnit == 0
TaskIds  == 1..MaxLines
TickUnit == MaxLines + 1
Units    == 0..(MaxLines + 1)

VARIABLES
    rt,          \* "AwaitingInit" | "InitReply" | "Running" | "Draining" | "Stopped"
    result,      \* main_loop's outcome: "none" | "ok" | "err" | "joinerr" | "panic"
    nodes,       \* node id -> BroadcastNode state (NoNode before from_init)
    line_iter,   \* lines read by the dispatch loop
    tasks,       \* the spawned tasks' inputs, in arrival order
    upc,         \* unit -> position
    uenv,        \* unit -> the envelope it is sending
    ures,        \* unit -> what its handler returned: "none" | "ok" | "err"
    before,      \* Read task -> the tasks whose step had run when its own ran
    node_lock,   \* holders of Arc<Mutex<node>>
    out_lock,    \* holders of Arc<Mutex<Stdout>>
    output,      \* the chunks written to stdout, in order
    stdout_ok,   \* FALSE once a write to stdout has failed
    drain_i,     \* the task the drain loop awaits
    tick_k,      \* the gossip round's position in neighborhood
    gossips,     \* Gossip envelopes handed to send by the gossip rounds
    net,         \* cluster: the Gossip envelopes in flight between nodes
    drops,       \* cluster: Gossip envelopes the network has dropped
    bcast        \* cluster: the values broadcast to any node so far

vars == <<rt, result, nodes, line_iter, tasks, upc, uenv, ures, before,
          node_lock, out_lock, output, stdout_ok, drain_i, tick_k, gossips,
          net, drops, bcast>>
cvars == <<net, drops, bcast>>
rvars == <<rt, result, line_iter, tasks, upc, uenv, ures, before, node_lock,
           out_lock, output, stdout_ok, drain_i, tick_k, gossips>>

\* ---------------------------------------------------------- broadcast node
NoNode == [node |-> "none", id |-> 0, messages |-> {}, known |-> <<>>,
           neighborhood |-> <<>>]

from_init(node_id, node_ids) ==
    [node |-> node_id, id |-> 1, messages |-> {},
     known |-> [n \in node_ids |-> {}], neighborhood |-> <<>>]

\* Mutant: the reply copies the request's in_reply_to instead of its msg_id.
into_reply_copies(msg, id) ==
    [reply |-> Envelope(msg.dest, msg.src, Some(id), msg.in_reply_to, msg.payload),
     id |-> id + 1]

\* Mutant: the counter is read but not advanced.
into_reply_keeps(msg, id) ==
    [reply |-> Envelope(msg.dest, msg.src, Some(id), msg.msg_id, msg.payload),
     id |-> id]

\* Message::into_reply(Some(&mut id)): the reply and the advanced counter.
into_reply(msg, id) ==
    [reply |-> Envelope(msg.dest, msg.src, Some(id), msg.msg_id, msg.payload),
     id |-> id + 1]

WithPayload(reply, p) == [reply EXCEPT !.payload = p]

\* Mutant: seen is recorded as known to the sender but not merged.
HandleGossipKnownOnly(s, reply) ==
    IF reply.dest \notin DOMAIN s.known
    THEN [state |-> s, out |-> <<>>, panic |-> TRUE]
    ELSE [state |-> [s EXCEPT !.known[reply.dest] = @ \cup reply.payload.seen],
          out |-> <<>>, panic |-> FALSE]

\* Mutant: seen is recorded as known to every node, not to the sender only.
HandleGossipKnownToAll(s, reply) ==
    IF reply.dest \notin DOMAIN s.known
    THEN [state |-> s, out |-> <<>>, panic |-> TRUE]
    ELSE [state |-> [s EXCEPT !.known = [n \in DOMAIN @ |->
                                           @[n] \cup reply.payload.seen],
                              !.messages = @ \cup reply.payload.seen],
          out |-> <<>>, panic |-> FALSE]

\* Mutant: the handler sends the reply it derived, as the other handlers do.
HandleGossipReplies(s, reply) ==
    IF reply.dest \notin DOMAIN s.known
    THEN [state |-> s, out |-> <<>>, panic |-> TRUE]
    ELSE [state |-> [s EXCEPT !.known[reply.dest] = @ \cup reply.payload.seen,
                              !.messages = @ \cup reply.payload.seen],
          out |-> <<reply>>, panic |-> FALSE]

\* broadcast.rs 138-144.
HandleGossip(s, reply) ==
    IF reply.dest \notin DOMAIN s.known
    THEN [state |-> s, out |-> <<>>, panic |-> TRUE]
    ELSE [state |-> [s EXCEPT !.known[reply.dest] = @ \cup reply.payload.seen,
                              !.messages = @ \cup reply.payload.seen],
          out |-> <<>>, panic |-> FALSE]

\* Mutant: the new value replaces the set instead of joining it.
HandleBroadcastReplaces(s, reply) ==
    [state |-> [s EXCEPT !.messages = {reply.payload.message}],
     out |-> <<WithPayload(reply, [type |-> "broadcast_ok"])>>,
     panic |-> FALSE]

\* broadcast.rs 145-150.
HandleBroadcast(s, reply) ==
    [state |-> [s EXCEPT !.messages = @ \cup {reply.payload.message}],
     out |-> <<WithPayload(reply, [type |-> "broadcast_ok"])>>,
     panic |-> FALSE]

\* Mutant: the reply is built from the known sets instead of messages.
HandleReadKnown(s, reply) ==
    [state |-> s,
     out |-> <<WithPayload(reply, [type |-> "read_ok",
                 messages |-> UNION {s.known[n] : n \in DOMAIN s.known}])>>,
     panic |-> FALSE]

\* broadcast.rs 152-158.
HandleRead(s, reply) ==
    [state |-> s,
     out |-> <<WithPayload(reply, [type |-> "read_ok", messages |-> s.messages])>>,
     panic |-> FALSE]

\* broadcast.rs 160-166.
HandleTopology(s, reply) ==
    IF s.node \notin DOMAIN reply.payload.topology
    THEN [state |-> s, out |-> <<>>, panic |-> TRUE]
    ELSE [state |-> [s EXCEPT !.neighborhood = reply.payload.topology[s.node]],
          out |-> <<WithPayload(reply, [type |-> "topology_ok"])>>,
          panic |-> FALSE]

\* BroadcastNode::step on Event::Message: the state after the handler's
\* mutation, the reply it goes on to send (if any), whether it panicked.
HandleMessage(s, input) ==
    LET r  == into_reply(input, s.id)
        s1 == [s EXCEPT !.id = r.id]
        t  == input.payload.type
    IN  CASE t = "gossip"    -> HandleGossip(s1, r.reply)
          [] t = "broadcast" -> HandleBroadcast(s1, r.reply)
          [] t = "read"      -> HandleRead(s1, r.reply)
          [] t = "topology"  -> HandleTopology(s1, r.reply)
          [] OTHER           -> [state |-> s1, out |-> <<>>, panic |-> FALSE]

\* Mutants: the filter is missing; the filter's negation is missing.
GossipSeenAll(s, n) == s.messages
GossipSeenKnown(s, n) == s.messages \cap s.known[n]

\* BroadcastNode::step on Event::Injected(Gossip): the message for neighbor n.
GossipSeen(s, n) == s.messages \ s.known[n]

\* Mutant: the message is addressed from the neighbor to this node.
GossipMsgSwapped(s, n) ==
    Envelope(n, s.node, None, None, [type |-> "gossip", seen |-> GossipSeen(s, n)])

\* broadcast.rs 111-126.
GossipMsg(s, n) ==
    Envelope(s.node, n, None, None, [type |-> "gossip", seen |-> GossipSeen(s, n)])

\* Mutant: what is sent to n is at once recorded as known to n.
GossipToOptimistic(s, n) ==
    [state |-> [s EXCEPT !.known[n] = @ \cup GossipSeen(s, n)],
     out   |-> GossipMsg(s, n)]

\* broadcast.rs 110-128, one turn of the round's loop: the message for
\* neighbor n is built and sent; no field of the node is assigned.
GossipTo(s, n) == [state |-> s, out |-> GossipMsg(s, n)]

\* The node after the turns k, k+1, ... of a round, and their messages.
RECURSIVE RoundState(_, _)
RoundState(s, k) ==
    IF k > Len(s.neighborhood) THEN s
    ELSE RoundState(GossipTo(s, s.neighborhood[k]).state, k + 1)

RECURSIVE RoundOut(_, _)
RoundOut(s, k) ==
    IF k > Len(s.neighborhood) THEN {}
    ELSE {GossipTo(s, s.neighborhood[k]).out}
           \cup RoundOut(GossipTo(s, s.neighborhood[k]).state, k + 1)

\* Node::gossip, the trait's default body: nothing.
gossip(s) == s

\* ------------------------------------------------------------- the runtime
\* Mutant: lock() does not wait.
TryLockAlways(holders) == TRUE

\* tokio::sync::Mutex::lock().await completes only when nobody holds the lock.
TryLock(holders) == holders = {}

InitMsg == Envelope(Client, Self, Some(InitMsgId), None,
                    [type |-> "init", node_id |-> Self, node_ids |-> NodeIds])

\* Mutant: src and dest are not swapped.
InitReplyNoSwap(init_msg) ==
    Envelope(init_msg.src, init_msg.dest, Some(0), init_msg.msg_id,
             [type |-> "init_ok"])

\* lib.rs 143-151.
InitReply(init_msg) ==
    Envelope(init_msg.dest, init_msg.src, Some(0), init_msg.msg_id,
             [type |-> "init_ok"])

Chunk(u, env, part) == [by |-> u, env |-> env, part |-> part]

Init ==
    /\ rt = "AwaitingInit"
    /\ result = "none"
    /\ nodes = [n \in NodeIds |-> NoNode]
    /\ line_iter = 0
    /\ tasks = <<>>
    /\ upc = [u \in Units |-> IF u = TickUnit THEN "idle" ELSE "none"]
    /\ uenv = [u \in Units |-> InitMsg]
    /\ ures = [u \in Units |-> "none"]
    /\ before = [u \in TaskIds |-> {}]
    /\ node_lock = {}
    /\ out_lock = {}
    /\ output = <<>>
    /\ stdout_ok = TRUE
    /\ drain_i = 1
    /\ tick_k = 1
    /\ gossips = 0
    /\ net = {}
    /\ drops = 0
    /\ bcast = {}

Stop(res) ==
    /\ rt' = "Stopped"
    /\ result' = res

\* lib.rs 128-154: the first line decodes as init; the node is built and the
\* init_ok reply is handed to send.
ReadInit ==
    /\ rt = "AwaitingInit"
    /\ rt' = "InitReply"
    /\ nodes' = [nodes EXCEPT ![Self] = from_init(InitMsg.payload.node_id,
                                                  InitMsg.payload.node_ids)]
    /\ uenv' = [uenv EXCEPT ![MainUnit] = InitReply(InitMsg)]
    /\ upc' = [upc EXCEPT ![MainUnit] = "send"]
    /\ UNCHANGED <<result, line_iter, tasks, ures, before, node_lock, out_lock,
                   output, stdout_ok, drain_i, tick_k, gossips>>
    /\ UNCHANGED cvars

\* Mutant: the failure is ignored and the dispatch loop starts.
ReadInitFailsGoesOn ==
    /\ rt = "AwaitingInit"
    /\ rt' = "Running"
    /\ UNCHANGED <<result, nodes, line_iter, tasks, upc, uenv, ures, before,
                   node_lock, out_lock, output, stdout_ok, drain_i, tick_k,
                   gossips>>
    /\ UNCHANGED cvars

\* lib.rs 128-139: no first line (expect panics), a line that does not
\* decode as Message<InitPayload> (the ? returns the error), or init_ok (panic).
ReadInitFails ==
    /\ rt = "AwaitingInit"
    /\ \E kind \in {"eof", "undecodable", "init_ok"} :
          Stop(IF kind = "undecodable" THEN "err" ELSE "panic")
    /\ UNCHANGED <<nodes, line_iter, tasks, upc, uenv, ures, before, node_lock,
                   out_lock, output, stdout_ok, drain_i, tick_k, gossips>>
    /\ UNCHANGED cvars

\* ------------------------------------------------------------ Message::send
\* What a write to stdout can return: Ok, or an error; once the reader of the
\* pipe is gone every write fails.
WriteOutcomes == IF stdout_ok THEN {TRUE, FALSE} ELSE {FALSE}

\* Mutant: the output guard outlives send.
SendReturnsKeepsGuard(u, r) ==
    /\ out_lock' = out_lock \cup {u}
    /\ ures' = IF u = TickUnit /\ r = "ok" THEN ures ELSE [ures EXCEPT ![u] = r]
    /\ rt' = IF u = MainUnit THEN "Running" ELSE rt
    /\ upc' = [upc EXCEPT ![u] =
                 IF u = MainUnit THEN "none"
                 ELSE IF u = TickUnit THEN (IF r = "ok" THEN "round" ELSE "idle")
                 ELSE "done"]
    /\ node_lock' = IF u = MainUnit \/ (u = TickUnit /\ r = "ok")
                    THEN node_lock ELSE node_lock \ {u}
    /\ tick_k' = IF u # TickUnit THEN tick_k ELSE IF r = "ok" THEN tick_k + 1 ELSE 1

\* send has returned r to unit u; the output guard is dropped.
\*   main thread (lib.rs 154): let _ = discards r, the dispatch loop starts;
\*   task (lib.rs 217): step returns r, the node guard is dropped, the task ends;
\*   gossip round (broadcast.rs 127-130): next neighbor on Ok, return on Err.
SendReturns(u, r) ==
    /\ out_lock' = out_lock \ {u}
    /\ ures' = IF u = TickUnit /\ r = "ok" THEN ures ELSE [ures EXCEPT ![u] = r]
    /\ rt' = IF u = MainUnit THEN "Running" ELSE rt
    /\ upc' = [upc EXCEPT ![u] =
                 IF u = MainUnit THEN "none"
                 ELSE IF u = TickUnit THEN (IF r = "ok" THEN "round" ELSE "idle")
                 ELSE "done"]
    /\ node_lock' = IF u = MainUnit \/ (u = TickUnit /\ r = "ok")
                    THEN node_lock ELSE node_lock \ {u}
    /\ tick_k' = IF u # TickUnit THEN tick_k ELSE IF r = "ok" THEN tick_k + 1 ELSE 1

\* lib.rs 49-54: take the output lock and write the serialized envelope.
SendJson(u) ==
    /\ rt # "Stopped"
    /\ upc[u] = "send"
    /\ TryLock(out_lock)
    /\ \E ok \in WriteOutcomes :
          /\ stdout_ok' = ok
          /\ IF ok
             THEN /\ output' = Append(output, Chunk(u, uenv[u], "json"))
                  /\ out_lock' = out_lock \cup {u}
                  /\ upc' = [upc EXCEPT ![u] = "nl"]
                  /\ UNCHANGED <<rt, ures, node_lock, tick_k>>
             ELSE /\ SendReturns(u, "err")
                  /\ UNCHANGED output
    /\ UNCHANGED <<result, nodes, line_iter, tasks, uenv, before, drain_i, gossips>>
    /\ UNCHANGED cvars

\* lib.rs 55-56: write the newline and return.
SendNl(u) ==
    /\ rt # "Stopped"
    /\ upc[u] = "nl"
    /\ \E ok \in WriteOutcomes :
          /\ stdout_ok' = ok
          /\ IF ok
             THEN /\ output' = Append(output, Chunk(u, uenv[u], "nl"))
                  /\ SendReturns(u, "ok")
             ELSE /\ SendReturns(u, "err")
                  /\ UNCHANGED output
    /\ UNCHANGED <<result, nodes, line_iter, tasks, uenv, before, drain_i, gossips>>
    /\ UNCHANGED cvars

\* ----------------------------------------------------------- dispatch loop
\* lib.rs 183-219: one more line; it decodes; a task is spawned for it.
ReadLine(l) ==
    /\ rt = "Running"
    /\ line_iter < MaxLines
    /\ line_iter' = line_iter + 1
    /\ tasks' = Append(tasks,
          [input |-> Envelope(l.src, Self, Some(InitMsgId + line_iter'), None,
                              l.payload),
           iter |-> line_iter'])
    /\ upc' = [upc EXCEPT ![line_iter'] = "spawned"]
    /\ UNCHANGED <<rt, result, nodes, uenv, ures, before, node_lock, out_lock,
                   output, stdout_ok, drain_i, tick_k, gossips>>
    /\ UNCHANGED cvars

\* lib.rs 194-199: a line that cannot be read or decoded: expect panics in
\* the main thread.
ReadBadLine ==
    /\ rt = "Running"
    /\ Stop("panic")
    /\ UNCHANGED <<nodes, line_iter, tasks, upc, uenv, ures, before, node_lock,
                   out_lock, output, stdout_ok, drain_i, tick_k, gossips>>
    /\ UNCHANGED cvars

\* lib.rs 183, 222: stdin is at end of file; the drain loop starts.
ReadEOF ==
    /\ rt = "Running"
    /\ rt' = "Draining"
    /\ drain_i' = 1
    /\ UNCHANGED <<result, nodes, line_iter, tasks, upc, uenv, ures, before,
                   node_lock, out_lock, output, stdout_ok, tick_k, gossips>>
    /\ UNCHANGED cvars

\* The tasks whose step has already run.
Stepped == {j \in TaskIds : upc[j] \in {"send", "json", "nl", "done", "panicked"}}

\* lib.rs 213-217: the task gets the node lock, calls gossip on every second
\* line, then step, which runs up to its send.
TaskStep(i) ==
    /\ rt # "Stopped"
    /\ upc[i] = "spawned"
    /\ TryLock(node_lock)
    /\ LET s0 == IF tasks[i].iter % 2 = 0 THEN gossip(nodes[Self])
                                           ELSE nodes[Self]
           h  == HandleMessage(s0, tasks[i].input)
       IN  /\ nodes' = [nodes EXCEPT ![Self] = h.state]
           /\ before' = [before EXCEPT ![i] =
                  IF tasks[i].input.payload.type = "read" THEN Stepped ELSE @]
           /\ IF h.panic
              THEN /\ upc' = [upc EXCEPT ![i] = "panicked"]
                   /\ UNCHANGED <<uenv, ures, node_lock>>
              ELSE IF h.out = <<>>
              THEN /\ upc' = [upc EXCEPT ![i] = "done"]
                   /\ ures' = [ures EXCEPT ![i] = "ok"]
                   /\ UNCHANGED <<uenv, node_lock>>
              ELSE /\ upc' = [upc EXCEPT ![i] = "send"]
                   /\ uenv' = [uenv EXCEPT ![i] = h.out[1]]
                   /\ node_lock' = node_lock \cup {i}
                   /\ UNCHANGED ures
    /\ UNCHANGED <<rt, result, line_iter, tasks, out_lock, output, stdout_ok,
                   drain_i, tick_k, gossips>>
    /\ UNCHANGED cvars

\* ---------------------------------------------------------------- the tick
\* Mutant: a round is started only for every second inbound line, as the
\* call of lib.rs 215 is.
TickFireOnLines ==
    /\ rt \in {"Running", "Draining"}
    /\ upc[TickUnit] = "idle"
    /\ gossips < MaxGossips
    /\ line_iter > 0 /\ line_iter % 2 = 0
    /\ TryLock(node_lock)
    /\ node_lock' = node_lock \cup {TickUnit}
    /\ upc' = [upc EXCEPT ![TickUnit] = "round"]
    /\ UNCHANGED <<rt, result, nodes, line_iter, tasks, uenv, ures, before,
                   out_lock, output, stdout_ok, drain_i, tick_k, gossips>>
    /\ UNCHANGED cvars

\* broadcast.rs 67-77: the ticker thread injects a Gossip event; the runtime
\* hands it to step under the node lock.
TickFire ==
    /\ rt \in {"Running", "Draining"}
    /\ upc[TickUnit] = "idle"
    /\ gossips < MaxGossips
    /\ TryLock(node_lock)
    /\ node_lock' = node_lock \cup {TickUnit}
    /\ upc' = [upc EXCEPT ![TickUnit] = "round"]
    /\ UNCHANGED <<rt, result, nodes, line_iter, tasks, uenv, ures, before,
                   out_lock, output, stdout_ok, drain_i, tick_k, gossips>>
    /\ UNCHANGED cvars

\* broadcast.rs 108-131: the round's loop over neighborhood. The index
\* self.known[n] panics for a neighbor with no entry in known, in the thread
\* that runs step on the injected event.
TickRound ==
    /\ rt # "Stopped"
    /\ upc[TickUnit] = "round"
    /\ LET s  == nodes[Self]
           nb == s.neighborhood
       IN  IF tick_k > Len(nb)
           THEN /\ upc' = [upc EXCEPT ![TickUnit] = "idle"]
                /\ node_lock' = node_lock \ {TickUnit}
                /\ tick_k' = 1
                /\ UNCHANGED <<rt, result, nodes, uenv, gossips>>
           ELSE IF nb[tick_k] \notin DOMAIN s.known
           THEN /\ Stop("panic")
                /\ upc' = [upc EXCEPT ![TickUnit] = "panicked"]
                /\ node_lock' = node_lock \ {TickUnit}
                /\ UNCHANGED <<nodes, uenv, gossips, tick_k>>
           ELSE /\ uenv' = [uenv EXCEPT ![TickUnit] = GossipTo(s, nb[tick_k]).out]
                /\ nodes' = [nodes EXCEPT ![Self] = GossipTo(s, nb[tick_k]).state]
                /\ upc' = [upc EXCEPT ![TickUnit] = "send"]
                /\ gossips' = gossips + 1
                /\ UNCHANGED <<rt, result, node_lock, tick_k>>
    /\ UNCHANGED <<line_iter, tasks, ures, before, out_lock, output,
                   stdout_ok, drain_i>>
    /\ UNCHANGED cvars

\* --------------------------------------------------------------- the drain
\* Mutant: the drain loop does not await the task.
DrainAwaitSkips ==
    /\ rt = "Draining"
    /\ drain_i <= Len(tasks)
    /\ drain_i' = drain_i + 1
    /\ UNCHANGED <<rt, result, nodes, line_iter, tasks, upc, uenv, ures, before,
                   node_lock, out_lock, output, stdout_ok, tick_k, gossips>>
    /\ UNCHANGED cvars

\* lib.rs 223-225: task.await? for each task in spawn order.
DrainAwait ==
    /\ rt = "Draining"
    /\ drain_i <= Len(tasks)
    /\ upc[drain_i] \in {"done", "panicked"}
    /\ IF upc[drain_i] = "panicked"
       THEN Stop("joinerr") /\ UNCHANGED drain_i
       ELSE drain_i' = drain_i + 1 /\ UNCHANGED <<rt, result>>
    /\ UNCHANGED <<nodes, line_iter, tasks, upc, uenv, ures, before, node_lock,
                   out_lock, output, stdout_ok, tick_k, gossips>>
    /\ UNCHANGED cvars

\* lib.rs 227: Ok(()).
DrainDone ==
    /\ rt = "Draining"
    /\ drain_i > Len(tasks)
    /\ Stop("ok")
    /\ UNCHANGED <<nodes, line_iter, tasks, upc, uenv, ures, before, node_lock,
                   out_lock, output, stdout_ok, drain_i, tick_k, gossips>>
    /\ UNCHANGED cvars

Next ==
    \/ ReadInit
    \/ ReadInitFails
    \/ \E u \in Units : SendJson(u)
    \/ \E u \in Units : SendNl(u)
    \/ \E l \in Lines : ReadLine(l)
    \/ ReadBadLine
    \/ ReadEOF
    \/ \E i \in TaskIds : TaskStep(i)
    \/ TickFire
    \/ TickRound
    \/ DrainAwait
    \/ DrainDone

Spec == Init /\ [][Next]_vars

\* The same runtime fed by a harness that also sends the stray lines.
ReadStrayLine == \E l \in StrayLines : ReadLine(l)

StrayNext ==
    \/ Next
    \/ ReadStrayLine

StraySpec == Init /\ [][StrayNext]_vars

\* The code's scheduling: a spawned task is polled until it completes and
\* tokio's Mutex hands the lock to its waiters in turn (SF for the lock);
\* a write in progress, the round's loop and the drain loop keep going (WF).
\* Nothing obliges the harness to send a line or to end the input, and the
\* model stops the ticker after MaxGossips envelopes.
Fairness ==
    /\ \A u \in Units : WF_vars(SendJson(u)) /\ WF_vars(SendNl(u))
    /\ \A i \in TaskIds : SF_vars(TaskStep(i))
    /\ WF_vars(TickRound)
    /\ WF_vars(DrainAwait)
    /\ WF_vars(DrainDone)

FairSpec == Spec /\ Fairness

\* broadcast.rs 71-76: the ticker thread sleeps and sends, for ever; the tick
\* is handled once the node lock is free.
TickSpec == FairSpec /\ WF_vars(TickFire)

\* -------------------------------------------------------------- a cluster
\* Every node of NodeIds after its handshake and the harness's Topology
\* message. A node handles one event at a time (the node lock), so a handler
\* or a gossip round is one step here. Replies go to the client, not to a
\* node; the msg id counter plays no part between nodes and is not tracked.
ForgetId(s) == [s EXCEPT !.id = 1]

TopologyMsg(n) ==
    Envelope(Client, n, None, None, [type |-> "topology", topology |-> TopoLine])

ClusterInit ==
    /\ nodes = [n \in NodeIds |->
                  ForgetId(HandleMessage(from_init(n, NodeIds),
                                         TopologyMsg(n)).state)]
    /\ net = {}
    /\ drops = 0
    /\ bcast = {}
    /\ rt = "Running"
    /\ result = "none"
    /\ line_iter = 0
    /\ tasks = <<>>
    /\ upc = [u \in Units |-> IF u = TickUnit THEN "idle" ELSE "none"]
    /\ uenv = [u \in Units |-> InitMsg]
    /\ ures = [u \in Units |-> "none"]
    /\ before = [u \in TaskIds |-> {}]
    /\ node_lock = {}
    /\ out_lock = {}
    /\ output = <<>>
    /\ stdout_ok = TRUE
    /\ drain_i = 1
    /\ tick_k = 1
    /\ gossips = 0

\* broadcast.rs 145-150 at node n.
ClBroadcast(n, v) ==
    /\ nodes' = [nodes EXCEPT ![n] = ForgetId(HandleMessage(nodes[n],
                    Envelope(Client, n, None, None,
                             [type |-> "broadcast", message |-> v])).state)]
    /\ bcast' = bcast \cup {v}
    /\ UNCHANGED <<net, drops, rvars>>

\* broadcast.rs 108-131 at node n: one Gossip message to every neighbor.
\* The network has delivered or lost all but MaxFlight - 1 of the earlier ones.
InFlight(a, b) == {m \in net : m.src = a /\ m.dest = b}

ClGossipRound(n) ==
    /\ \A k \in 1..Len(nodes[n].neighborhood) :
          Cardinality(InFlight(n, nodes[n].neighborhood[k])) < MaxFlight
    /\ net' = net \cup RoundOut(nodes[n], 1)
    /\ nodes' = [nodes EXCEPT ![n] = RoundState(nodes[n], 1)]
    /\ UNCHANGED <<drops, bcast, rvars>>

\* broadcast.rs 138-144 at the destination of a Gossip message in flight.
ClDeliver(m) ==
    /\ m \in net
    /\ net' = net \ {m}
    /\ nodes' = [nodes EXCEPT ![m.dest] =
                   ForgetId(HandleMessage(nodes[m.dest], m).state)]
    /\ UNCHANGED <<drops, bcast, rvars>>

\* The network loses a Gossip message.
ClDrop(m) ==
    /\ m \in net
    /\ drops < MaxDrops
    /\ net' = net \ {m}
    /\ drops' = drops + 1
    /\ UNCHANGED <<nodes, bcast, rvars>>

\* The Gossip envelopes that can be in flight.
GossipUniverse ==
    {Envelope(a, TopoLine[a][k], None, None, [type |-> "gossip", seen |-> s]) :
        <<a, k, s>> \in {t \in NodeIds \X {1, 2} \X SUBSET Values :
                            t[2] <= Len(TopoLine[t[1]])}}

ClusterNext ==
    \/ \E n \in NodeIds, v \in Values : ClBroadcast(n, v)
    \/ \E n \in NodeIds : ClGossipRound(n)
    \/ \E m \in GossipUniverse : ClDeliver(m)
    \/ \E m \in GossipUniverse : ClDrop(m)

\* Gossip rounds keep firing at every node (the 300 ms ticker) and a message
\* left in flight is delivered.
ClusterSpec ==
    /\ ClusterInit
    /\ [][ClusterNext]_vars
    /\ \A n \in NodeIds : WF_vars(ClGossipRound(n))
    /\ \A m \in GossipUniverse : WF_vars(ClDeliver(m))

\* ------------------------------------------------------------ observations
JsonAt == {p \in 1..Len(output) : output[p].part = "json"}
Spawned == 1..Len(tasks)
TypeOf(i) == tasks[i].input.payload.type
IsRequest(i) == TypeOf(i) \in {"topology", "broadcast", "read"}
ReplyTypeOf(i) == CASE TypeOf(i) = "topology"  -> "topology_ok"
                    [] TypeOf(i) = "broadcast" -> "broadcast_ok"
                    [] TypeOf(i) = "read"      -> "read_ok"
                    [] OTHER                   -> "none"
\* The envelopes written in answer to task i's request.
RepliesTo(i) ==
    {p \in JsonAt : output[p].env.in_reply_to = tasks[i].input.msg_id
                     /\ output[p].by # MainUnit}
\* Task i's reply line is complete on the output stream.
Replied(i) ==
    \E p \in 1..Len(output) : output[p].by = i /\ output[p].part = "nl"
Finished(i) == upc[i] \in {"done", "panicked"}
\* The units inside the section guarded by the node lock.
InSection(u) ==
    IF u = TickUnit THEN upc[u] \in {"round", "send", "nl"}
    ELSE u \in TaskIds /\ upc[u] \in {"send", "nl"}
\* broadcast.rs 179-183: main discards what main_loop returns and returns
\* Ok(()); only a panic of the main thread ends the process otherwise.
ExitCode == IF result = "panic" THEN "nonzero" ELSE "zero"
\* What the step of task j adds to messages.
Contribution(j) ==
    CASE TypeOf(j) = "broadcast" -> {tasks[j].input.payload.message}
      [] TypeOf(j) = "gossip" /\ tasks[j].input.src \in NodeIds
                                 -> tasks[j].input.payload.seen
      [] OTHER -> {}

\* ------------------------------------------------------------------ claims

\* C1: in a cluster with a connected topology, with gossip rounds firing at
\* every node and boundedly many Gossip messages dropped, every node's
\* messages set eventually equals, and stays, the set of all values broadcast
\* to any node.
Converged == \A n \in NodeIds : nodes[n].messages = bcast
C1_Convergence == <>[]Converged

\* Every value has been broadcast, a Gossip message has been dropped, and
\* the node two hops from where a value entered has it.
C1_Witness ==
    /\ Converged
    /\ bcast = Values
    /\ drops = MaxDrops
    /\ \A n \in NodeIds : nodes[n].known[nodes[n].neighborhood[1]] # {}

\* C2 (as stated): the read_ok sent for a Read that arrived after Broadcasts
\* only holds exactly the values broadcast before the Read arrived.
C2_AsStated ==
    \A r \in Spawned : \A p \in RepliesTo(r) :
        (TypeOf(r) = "read" /\ \A j \in 1..(r - 1) : TypeOf(j) = "broadcast")
            => output[p].env.payload.messages
                 = {tasks[j].input.payload.message : j \in 1..(r - 1)}

\* C2 (amended): a read_ok holds exactly the values of the messages whose
\* handlers ran before the Read's handler took the node lock; when the
\* handlers ran in arrival order these are the values that arrived before it.
C2_ReadSnapshot ==
    \A r \in Spawned : \A p \in RepliesTo(r) :
        TypeOf(r) = "read"
            => /\ output[p].env.payload.type = "read_ok"
               /\ output[p].env.payload.messages
                    = UNION {Contribution(j) : j \in before[r]}
               /\ (before[r] = 1..(r - 1)
                     => output[p].env.payload.messages
                          = UNION {Contribution(j) : j \in 1..(r - 1)})

\* A Read answered with a non-empty set, after another handler.
C2_Witness ==
    \E r \in Spawned : \E p \in RepliesTo(r) :
        /\ TypeOf(r) = "read"
        /\ before[r] # {}
        /\ output[p].env.payload.messages # {}

\* C3: while a gossip round sends to neighbor n, the seen set of its Gossip
\* message holds no value of known[n].
C3_GossipMinimal ==
    upc[TickUnit] \in {"send", "nl"}
        => uenv[TickUnit].payload.seen
             \cap nodes[Self].known[uenv[TickUnit].dest] = {}

\* A round sending to a neighbor about whom something is known.
C3_Witness ==
    /\ upc[TickUnit] \in {"send", "nl"}
    /\ nodes[Self].known[uenv[TickUnit].dest] # {}

\* C4: known[n] is a subset of messages for every n, in every state.
C4_KnownSubset ==
    \A n \in DOMAIN nodes[Self].known :
        nodes[Self].known[n] \subseteq nodes[Self].messages

C4_Witness ==
    \E n \in DOMAIN nodes[Self].known :
        /\ nodes[Self].known[n] # {}
        /\ nodes[Self].known[n] # nodes[Self].messages

\* C5: no step removes a value from messages.
C5_MessagesGrow ==
    [][nodes[Self].messages \subseteq nodes'[Self].messages]_vars

C5_Witness == Cardinality(nodes[Self].messages) >= 2

\* C6: the first envelope on the output stream is the init_ok reply (src and
\* dest of the init message swapped, msg_id 0, in_reply_to the init message's
\* msg_id), no other envelope is an init_ok, and lines are dispatched only
\* after its send has returned: with the whole line written, when stdout took
\* the writes.
C6_Handshake ==
    /\ \A p \in JsonAt :
          IF p = 1
          THEN output[p] = Chunk(MainUnit,
                   Envelope(InitMsg.dest, InitMsg.src, Some(0), InitMsg.msg_id,
                            [type |-> "init_ok"]), "json")
          ELSE output[p].env.payload.type # "init_ok" /\ output[p].by # MainUnit
    /\ (rt \in {"Running", "Draining"} \/ tasks # <<>>)
          => /\ ures[MainUnit] # "none"
             /\ ures[MainUnit] = "ok"
                  => Len(output) >= 2 /\ output[2].part = "nl"
                       /\ output[2].by = MainUnit

\* A reply written after the handshake.
C6_Witness == Len(output) >= 4 /\ ures[MainUnit] = "ok"

C7_Safe ==
    /\ \A i \in Spawned :
          /\ Cardinality(RepliesTo(i)) <= 1
          /\ ~IsRequest(i) => RepliesTo(i) = {}
          /\ \A p \in RepliesTo(i) :
                /\ output[p].by = i
                /\ output[p].env.dest = tasks[i].input.src
                /\ output[p].env.src = tasks[i].input.dest
                /\ output[p].env.payload.type = ReplyTypeOf(i)
    /\ \A p \in JsonAt :
          output[p].by \in TaskIds => p \in RepliesTo(output[p].by)

C8_Mutex ==
    /\ [](/\ Cardinality({u \in Units : InSection(u)}) <= 1
          /\ node_lock = {u \in Units : InSection(u)})
    /\ [][InSection(TickUnit) => nodes' = nodes]_vars

\* A task is spawned and waiting while the gossip round holds the lock.
C8_Witness ==
    /\ InSection(TickUnit)
    /\ \E i \in TaskIds : upc[i] = "spawned"

\* C9: on the output stream every serialized envelope is followed at once by
\* its own newline, and every newline follows its own envelope.
C9_WholeLines ==
    \A p \in 1..Len(output) :
        IF output[p].part = "json"
        THEN p < Len(output)
               => output[p + 1] = [output[p] EXCEPT !.part = "nl"]
        ELSE p > 1 /\ output[p - 1] = [output[p] EXCEPT !.part = "json"]

\* Lines of two different tasks and of the gossip round on the stream.
C9_Witness ==
    \E p, q \in 1..Len(output) :
        /\ output[p].by \in TaskIds
        /\ output[q].by = TickUnit
        /\ output[p].part = "nl" /\ output[q].part = "nl"

C10_Safe ==
    /\ (rt = "Stopped" /\ result = "ok") => \A i \in Spawned : upc[i] = "done"
    /\ (rt = "Stopped" /\ result = "joinerr")
          => /\ upc[drain_i] = "panicked"
             /\ \A i \in 1..(drain_i - 1) : upc[i] = "done"
    /\ rt = "Draining" => \A i \in 1..(drain_i - 1) : upc[i] = "done"

C11_AsStated ==
    (rt = "Stopped" /\ result = "ok")
        => \A u \in {MainUnit} \cup Spawned : ures[u] # "err"

\* C12 (as stated): the exit status is zero after a clean drain and non-zero
\* when the init line does not decode, when there is no init line, and when a
\* write to the output stream has failed.
C12_AsStated ==
    rt = "Stopped"
        => /\ (result = "ok" /\ \A u \in Units : ures[u] # "err")
                => ExitCode = "zero"
           /\ (result = "err" \/ (result = "panic" /\ ures[MainUnit] = "none"
                                    /\ line_iter = 0 /\ output = <<>>))
                => ExitCode = "nonzero"
           /\ (\E u \in {MainUnit} \cup Spawned : ures[u] = "err")
                => ExitCode = "nonzero"

\* C13 (as stated): the handler of a Gossip message from a sender outside
\* init.node_ids returns (an error) instead of panicking, and so does a gossip
\* round that reaches a neighbor with no entry in known; the process is not
\* aborted by either.
C13_AsStated ==
    /\ \A i \in Spawned :
          (TypeOf(i) = "gossip" /\ tasks[i].input.src \notin NodeIds)
             => /\ upc[i] # "panicked"
                /\ i \in Stepped => ures[i] = "err"
    /\ upc[TickUnit] # "panicked"

\* The Topology tasks whose assignment has an entry for this node.
TopologyWithSelf ==
    {i \in Spawned : TypeOf(i) = "topology"
                       /\ Self \in DOMAIN tasks[i].input.payload.topology}
TopologyWithoutSelf ==
    {i \in Spawned : TypeOf(i) = "topology"
                       /\ Self \notin DOMAIN tasks[i].input.payload.topology}

\* The parts of C14 the code keeps: neighborhood is the assignment of a
\* Topology handled so far (empty when none was), a Topology with an entry
\* for this node is answered by at most one topology_ok, exactly one once its
\* task has returned Ok, and one without an entry is never answered and
\* leaves its task panicked.
C14_Kept ==
    /\ nodes[Self].neighborhood \in
          IF TopologyWithSelf \cap Stepped = {} THEN {<<>>}
          ELSE {tasks[i].input.payload.topology[Self] :
                  i \in TopologyWithSelf \cap Stepped}
    /\ \A i \in TopologyWithSelf :
          /\ Cardinality(RepliesTo(i)) <= 1
          /\ \A p \in RepliesTo(i) : output[p].env.payload.type = "topology_ok"
          /\ ures[i] = "ok" => Replied(i)
    /\ \A i \in TopologyWithoutSelf :
          /\ RepliesTo(i) = {}
          /\ i \in Stepped => upc[i] = "panicked"

\* C14 (as stated): the same, and a Topology without an entry for this node
\* aborts the node: once its handler has panicked the process has stopped.
C14_AsStated ==
    /\ C14_Kept
    /\ \A i \in TopologyWithoutSelf :
          upc[i] = "panicked" => rt = "Stopped" /\ result = "panic"

\* C15: the handler of an inbound Gossip message never sends and so writes
\* nothing to the output stream, and every Gossip envelope sent or written
\* comes from the gossip round: from this node, with no msg_id and no
\* in_reply_to.
C15_GossipOneWay ==
    /\ \A i \in Spawned :
          TypeOf(i) = "gossip"
             => /\ upc[i] \notin {"send", "nl"}
                /\ \A p \in 1..Len(output) : output[p].by # i
    /\ \A p \in 1..Len(output) :
          output[p].env.payload.type = "gossip"
             => /\ output[p].by = TickUnit
                /\ output[p].env.src = Self
                /\ output[p].env.msg_id = None
                /\ output[p].env.in_reply_to = None
    /\ \A u \in Units :
          (upc[u] \in {"send", "nl"} /\ uenv[u].payload.type = "gossip")
             => u = TickUnit

\* A Gossip message has been handled and the round has written one.
C15_Witness ==
    /\ \E i \in Spawned : TypeOf(i) = "gossip" /\ upc[i] = "done"
    /\ \E p \in 1..Len(output) :
          output[p].env.payload.type = "gossip" /\ output[p].part = "nl"

C17_AsStated ==
    /\ upc[TickUnit] \in {"send", "nl"} => uenv[TickUnit].payload.seen # {}
    /\ \A p \in 1..Len(output) :
          output[p].env.payload.type = "gossip"
             => output[p].env.payload.seen # {}

\* The Gossip lines the rounds have put on the output stream.
GossipAt == {p \in JsonAt : output[p].by = TickUnit}
\* The values node n has sent this node in the Gossip messages handled so far.
FromInbound(n) ==
    UNION {tasks[j].input.payload.seen :
             j \in {i \in Stepped : TypeOf(i) = "gossip" /\ tasks[i].input.src = n}}

\* C18 (as stated): once a round has sent Gossip{seen: diff} to n, known[n]
\* contains every value of diff, and no value is sent to n twice.
C18_AsStated ==
    /\ \A p \in GossipAt :
          (p < Len(output) \/ upc[TickUnit] # "nl")
             => output[p].env.payload.seen
                  \subseteq nodes[Self].known[output[p].env.dest]
    /\ \A p, q \in GossipAt :
          (p < q /\ output[p].env.dest = output[q].env.dest)
             => output[p].env.payload.seen \cap output[q].env.payload.seen = {}

\* C18 (amended): a gossip round does not touch known: known[n] is exactly
\* what n itself has sent in Gossip messages, and every value a round has
\* sent to n is in the diff for n again (the next round resends it) unless n
\* has sent it back since.
C18_KnownFromInbound ==
    /\ \A n \in DOMAIN nodes[Self].known :
          nodes[Self].known[n] = FromInbound(n)
    /\ \A p \in GossipAt :
          output[p].env.payload.seen \ FromInbound(output[p].env.dest)
             \subseteq GossipSeen(nodes[Self], output[p].env.dest)

\* Two rounds have written the same value to the same neighbor.
C18_Witness ==
    \E p, q \in GossipAt :
        /\ p < q /\ q < Len(output)
        /\ output[p].env.dest = output[q].env.dest
        /\ output[p].env.payload.seen \cap output[q].env.payload.seen # {}

\* The complete Gossip lines on the output stream, and the i-th of them.
GossipNl ==
    {p \in 1..Len(output) : output[p].by = TickUnit /\ output[p].part = "nl"}
GossipLine(i) ==
    CHOOSE p \in GossipNl : Cardinality({q \in GossipNl : q <= p}) = i
\* The envelope e is from this node to n and holds every value of messages
\* that is not in known[n].
CompleteFor(e, n) ==
    /\ e.src = Self
    /\ e.dest = n
    /\ e.payload.type = "gossip"
    /\ \A v \in nodes[Self].messages : v \notin nodes[Self].known[n]
                                          => v \in e.payload.seen

\* The round in progress has written a complete message to each of the
\* neighbors before its position, in order, and is sending one to the
\* neighbor at its position.
C19_Safe ==
    /\ upc[TickUnit] \in {"send", "nl"}
          => CompleteFor(uenv[TickUnit], nodes[Self].neighborhood[tick_k])
    /\ upc[TickUnit] \in {"round", "send", "nl"}
          => /\ Cardinality(GossipNl) >= tick_k - 1
             /\ \A j \in 1..(tick_k - 1) :
                   CompleteFor(
                     output[GossipLine(Cardinality(GossipNl) - (tick_k - 1) + j)].env,
                     nodes[Self].neighborhood[j])
    /\ \A r \in Spawned : \A p \in RepliesTo(r) :
          TypeOf(r) = "read"
             => \A j \in before[r] :
                   (TypeOf(j) = "gossip" /\ upc[j] = "done")
                      => tasks[j].input.payload.seen
                           \subseteq output[p].env.payload.messages

\* C19: while the output stream takes the writes and the process runs, a
\* gossip round reaches the end of neighborhood, having sent to every
\* neighbor n, from this node, a Gossip message that holds every value of
\* messages not in known[n]; and a Read handled after a Gossip message
\* returns the values of that message.
C19_GossipComplete ==
    /\ []C19_Safe
    /\ (upc[TickUnit] = "round" /\ tick_k = 1)
          ~> \/ upc[TickUnit] = "round"
                  /\ tick_k = Len(nodes[Self].neighborhood) + 1
             \/ ~stdout_ok
             \/ rt = "Stopped"

\* A round at the end of a neighborhood of two, each neighbor lacking a value.
C19_Witness ==
    /\ upc[TickUnit] = "round"
    /\ Len(nodes[Self].neighborhood) = 2
    /\ tick_k = 3
    /\ \A j \in 1..2 :
          output[GossipLine(Cardinality(GossipNl) - 2 + j)].env.payload.seen # {}

\* The envelopes on the output stream that carry a msg_id.
WithId == {p \in JsonAt : output[p].env.msg_id # None}

\* C20: the msg_ids of the envelopes that carry one (init_ok with 0, then the
\* replies) strictly increase in the order the envelopes are written, and the
\* reply being sent carries a msg_id above all those written by others.
C20_IdsIncrease ==
    /\ \A p, q \in WithId :
          p < q => output[p].env.msg_id[1] < output[q].env.msg_id[1]
    /\ \A p \in JsonAt : (p = 1) = (output[p].env.msg_id = Some(0))
    /\ \A u \in TaskIds : \A p \in WithId :
          (upc[u] \in {"send", "nl"} /\ output[p].by # u)
             => output[p].env.msg_id[1] < uenv[u].msg_id[1]

\* Two requests answered in the reverse of their arrival order, the reply
\* written first carrying the smaller msg_id.
C20_Witness ==
    \E i, j \in Spawned : \E p \in RepliesTo(i), q \in RepliesTo(j) :
        /\ i < j /\ q < p /\ p < Len(output)
        /\ output[q].env.msg_id = Some(1)
        /\ output[p].env.msg_id = Some(2)

\* C21 (as stated): a step changes the node's id counter only if that same
\* step hands to send an envelope carrying the counter's value (the
\* construction of the node at the handshake aside).
C21_AsStated ==
    [][nodes'[Self].id # nodes[Self].id
         => \/ rt = "AwaitingInit"
            \/ \E i \in TaskIds :
                  /\ upc[i] = "spawned"
                  /\ upc'[i] = "send"
                  /\ uenv'[i].msg_id = Some(nodes[Self].id)]_vars

\* Nothing has been built, written, read or started.
Untouched ==
    /\ nodes[Self] = NoNode
    /\ output = <<>>
    /\ tasks = <<>> /\ line_iter = 0
    /\ \A u \in Units : upc[u] \in {"none", "idle"} /\ ures[u] = "none"
    /\ node_lock = {} /\ out_lock = {}

C22_Safe ==
    /\ nodes[Self] = NoNode
          => /\ Untouched
             /\ rt \in {"AwaitingInit", "Stopped"}
             /\ rt = "Stopped" => result \in {"err", "panic"}
    /\ rt \in {"InitReply", "Running", "Draining"}
          => /\ nodes[Self].node = InitMsg.payload.node_id
             /\ DOMAIN nodes[Self].known = InitMsg.payload.node_ids
    /\ (output # <<>> \/ tasks # <<>> \/ upc[TickUnit] # "idle")
          => nodes[Self] # NoNode

\* C22: when the first line is missing, does not decode as an init message
\* or is an init_ok, main_loop ends (by a panic or by returning the error)
\* with no node built, nothing written and no line dispatched, and stays so;
\* Running is entered only from the reply to a decoded init.
C22_HandshakeFirst ==
    /\ []C22_Safe
    /\ [][(rt' = "InitReply" => rt \in {"AwaitingInit", "InitReply"})
            /\ (rt' = "Running" => rt \in {"InitReply", "Running"})
            /\ (rt = "Stopped" => rt' = "Stopped")
            /\ (rt = "AwaitingInit" /\ rt' = "Stopped" => Untouched')]_vars

\* The first line did not decode: main_loop has returned the error.
C22_Witness ==
    rt = "Stopped" /\ result = "err" /\ Untouched

\* C23: in a cluster, whatever the network delays, reorders or drops, every
\* value in A's known[B] is in B's messages, and so is every value of a
\* Gossip message from B still in flight.
C23_KnownSound ==
    /\ \A a \in NodeIds : \A b \in DOMAIN nodes[a].known :
          nodes[a].known[b] \subseteq nodes[b].messages
    /\ \A m \in net : m.payload.seen \subseteq nodes[m.src].messages

\* A node knows what a neighbor has while that neighbor lacks a value of its
\* own, a Gossip message having been dropped.
C23_Witness ==
    \E a, b \in NodeIds :
        /\ nodes[a].known[b] # {}
        /\ nodes[a].messages \ nodes[b].messages # {}
        /\ drops = MaxDrops

\* A unit that has work left, and a step of such a unit.
Unfinished(u) == upc[u] \in {"spawned", "send", "nl", "round"}
UnitStep ==
    \/ \E u \in Units : SendJson(u) \/ SendNl(u)
    \/ \E i \in TaskIds : TaskStep(i)
    \/ TickRound

\* The output lock is taken only by a unit that holds the node lock (or by
\* the main thread, which never takes the node lock), a unit waiting for the
\* node lock holds no lock, each lock has at most one holder, and while the
\* process runs and a unit has work left some unit can take a step.
C24_Safe ==
    /\ \A u \in out_lock : u = MainUnit \/ u \in node_lock
    /\ MainUnit \notin node_lock
    /\ \A i \in TaskIds :
          upc[i] = "spawned" => i \notin node_lock /\ i \notin out_lock
    /\ Cardinality(node_lock) <= 1 /\ Cardinality(out_lock) <= 1
    /\ (rt # "Stopped" /\ \E u \in Units : Unfinished(u)) => ENABLED UnitStep

\* C24: the locks are always taken node lock first, no reachable state has
\* every unfinished unit waiting for a lock, and every spawned task gets the
\* node lock and completes (returns or panics) unless the process ends first.
C24_NoDeadlock ==
    /\ []C24_Safe
    /\ \A i \in TaskIds :
          (upc[i] = "spawned") ~> (Finished(i) \/ rt = "Stopped")

\* A task holds both locks while another waits for the node lock.
C24_Witness ==
    \E i, j \in TaskIds :
        /\ upc[i] = "nl" /\ i \in node_lock /\ i \in out_lock
        /\ upc[j] = "spawned"

\* C24 as stated: the lock order and the absence of blocked states, with every
\* spawned task completing whatever the process does.
C24_AsStated ==
    /\ []C24_Safe
    /\ \A i \in TaskIds : (upc[i] = "spawned") ~> Finished(i)

====
